---- MODULE Spec2Model ----
(***************************************************************************)
(* The navigation and layout shell of src/App.js: the App component (the   *)
(* Shell Container), SideMenuContent (the Navigation Panel), SideMenuItem  *)
(* (the Navigation Item), the lazily loaded route views, and the document  *)
(* level click listener that closes the mobile menu.                       *)
(*                                                                         *)
(* One TLA+ step is one event with everything it sets off: every React     *)
(* handler the dispatch reaches, the synchronous re-render that follows a  *)
(* state update made in it, the effects that re-render flushes, and, for   *)
(* an assignment to window.location.href, the document load it starts.     *)
(*                                                                         *)
(* The second half of the file is the containerized runner, a bash script: *)
(* sh is one invocation of it, a step is one of its functions.             *)
(***************************************************************************)
EXTENDS Integers, Sequences, FiniteSets, TLC

VARIABLES
    mounted,           \* the App component is mounted in the current document
    sidebarCollapsed,  \* useState, App.js:113
    isMobileMenuOpen,  \* useState, App.js:114
    pathname,          \* location.pathname of the current document
    listeners,         \* document 'click' listeners, each the isMobileMenuOpen it closed over
    lazyStatus,        \* per lazy() component: "idle", "loading" or "ready"
    view,              \* what the last render committed to the DOM
    routerNavs,        \* in-document location changes seen by this document
    remounted,         \* App was unmounted and mounted again in this document
    lastEvent,         \* the last step taken and what its dispatch did
    sh                 \* one invocation of the runner script (App.js:206-447)

vars == <<mounted, sidebarCollapsed, isMobileMenuOpen, pathname, listeners,
          lazyStatus, view, routerNavs, remounted, lastEvent>>

\* Bound: in-document (router driven) location changes per document.
MaxRouterNavs == 2

-----------------------------------------------------------------------------
(* Paths.  A pathname is the sequence of its segments: "/" is << >>,       *)
(* "/config" is <<"config">>, "/config/x" is <<"config", "x">>, and a      *)
(* trailing slash is an empty last segment, "/config/" = <<"config", "">>. *)
(* Two pathnames are the same string iff they are the same sequence.       *)

navigationItems ==
    << [path |-> << >>,            label |-> "Dashboard",            component |-> "Dashboard"],
       [path |-> <<"config">>,     label |-> "Mirror Configuration", component |-> "MirrorConfig"],
       [path |-> <<"operations">>, label |-> "Mirror Operations",    component |-> "MirrorOperations"],
       [path |-> <<"history">>,    label |-> "History",              component |-> "History"],
       [path |-> <<"settings">>,   label |-> "Settings",             component |-> "Settings"] >>

Items == DOMAIN navigationItems

NoItem == 0

\* The pathnames a document can be at: the five registered ones, one below a
\* registered one, one with a trailing slash, and one unrelated.
PathSet ==
    { navigationItems[i].path : i \in Items }
        \cup { <<"config", "x">>, <<"config", "">>, <<"unknown">> }

IsPrefixOf(p, q) == Len(p) <= Len(q) /\ SubSeq(q, 1, Len(p)) = p

\* isActive={location.pathname === item.path}
\* Fault variant: startsWith instead of ===.
isActivePrefix(path, item) == IsPrefixOf(item.path, path)

isActive(path, item) == path = item.path

\* <Route path={item.path}>: react-router matches a leaf route against the
\* whole pathname, ignoring one trailing slash.
StripTrailingSlash(p) ==
    IF Len(p) > 0 /\ p[Len(p)] = "" THEN SubSeq(p, 1, Len(p) - 1) ELSE p

RouteMatch(p) ==
    LET hits == { i \in Items : navigationItems[i].path = StripTrailingSlash(p) }
    IN  IF hits = {} THEN NoItem ELSE CHOOSE i \in hits : \A j \in hits : i <= j

-----------------------------------------------------------------------------
(* Rendering *)

\* {!isCollapsed && <span className="side-menu-label">{label}</span>}
labelRendered(isCollapsed) == ~isCollapsed

\* aria-expanded={!sidebarCollapsed}
\* Fault variant: the negation dropped.
ariaExpandedSame(collapsed) == collapsed

ariaExpanded(collapsed) == ~collapsed

\* <Suspense fallback={<LoadingSpinner />}><Routes>...</Routes></Suspense>
Content(p, lz) ==
    LET m == RouteMatch(p)
    IN  IF m = NoItem THEN "nothing"
        ELSE IF lz[m] = "ready" THEN navigationItems[m].component
        ELSE "LoadingSpinner"

NoView == [rendered |-> FALSE]

\* The DOM that App commits for the given state.
Render(collapsed, p, lz) ==
    [ rendered     |-> TRUE,
      navCollapsed |-> collapsed,
      ariaExpanded |-> ariaExpanded(collapsed),
      active       |-> { i \in Items : isActive(p, navigationItems[i]) },
      labels       |-> { i \in Items : labelRendered(collapsed) },
      content      |-> Content(p, lz) ]

\* Rendering a lazy() component for the first time calls its import().
StartLoad(lz, p) ==
    LET m == RouteMatch(p)
    IN  IF m # NoItem /\ lz[m] = "idle" THEN [lz EXCEPT ![m] = "loading"] ELSE lz

AllIdle == [i \in Items |-> "idle"]

-----------------------------------------------------------------------------
(* State and effects of App *)

\* Fault variant: useState(true).
InitialSidebarCollapsedTrue == TRUE

InitialSidebarCollapsed == FALSE        \* useState(false)

InitialMobileMenuOpen == FALSE          \* useState(false)

toggleSidebarUpdate(prev) == ~prev      \* setSidebarCollapsed(prev => !prev)

\* Fault variant: setIsMobileMenuOpen(true).
toggleMobileMenuOpens(prev) == TRUE

toggleMobileMenuUpdate(prev) == ~prev   \* setIsMobileMenuOpen(prev => !prev)

\* document.addEventListener('click', handleClickOutside): the handler closes
\* over the isMobileMenuOpen of the render that ran the effect.
ListenerSetup(ls, open) == Append(ls, open)

\* return () => document.removeEventListener('click', handleClickOutside):
\* removes the handler this effect registered, which is the last one added.
\* Fault variant: the effect returns no cleanup.
ListenerCleanupLeaks(ls) == ls

ListenerCleanup(ls) == IF ls = << >> THEN ls ELSE SubSeq(ls, 1, Len(ls) - 1)

\* useEffect(() => { setIsMobileMenuOpen(false); }, [])
\* Fault variant: setIsMobileMenuOpen(true).
MountNormalizeOpens(open) == TRUE

MountNormalize(open) == FALSE

\* isMobileMenuOpen once a mount's effects have run; the listener effect has
\* then run for that value.
MountedOpen == MountNormalize(InitialMobileMenuOpen)

Targets == {"outside", "detached", "nonElement"}

\* event.target.closest: an Element has it; document, window and text nodes do not.
HasClosest(target) == target # "nonElement"

\* event.target.closest('.side-menu') is non-null.  A node that was detached
\* from the panel has no .side-menu ancestor any more.
InsideSideMenu(target) == target \in {"toggle", "item", "anchor"}

\* if (isMobileMenuOpen && !event.target.closest('.side-menu')): evaluating
\* the condition throws a TypeError when the first conjunct is true and the
\* target has no closest method.
handleClickOutsideThrows(captured, target) == captured /\ ~HasClosest(target)

\* Fault variant: the negation of closest() dropped.
handleClickOutsideInverted(captured, target) ==
    captured /\ HasClosest(target) /\ InsideSideMenu(target)

handleClickOutsideCloses(captured, target) ==
    captured /\ HasClosest(target) /\ ~InsideSideMenu(target)

\* The document dispatches the click to every registered listener.
AnyCloses(ls, target) == \E k \in DOMAIN ls : handleClickOutsideCloses(ls[k], target)
AnyThrows(ls, target) == \E k \in DOMAIN ls : handleClickOutsideThrows(ls[k], target)

\* isMobileMenuOpen after the listeners ran, and the listener effect re-run
\* ([isMobileMenuOpen] dependency) when the value changed.
OpenAfterClick(target) ==
    IF mounted /\ AnyCloses(listeners, target) THEN FALSE ELSE isMobileMenuOpen

ListenersAfter(newOpen) ==
    IF mounted /\ newOpen # isMobileMenuOpen
    THEN ListenerSetup(ListenerCleanup(listeners), newOpen)
    ELSE listeners

\* The record of a step: what was dispatched (kind, target, key), how often the
\* item's onClick ran, whether the anchor navigated by itself, how many document
\* listeners the click reached, whether one threw, and the two state values
\* the step started from.
Event(kind, target, key, calls, anchorNav, handled, threw) ==
    [kind |-> kind, target |-> target, key |-> key, calls |-> calls,
     anchorNav |-> anchorNav, handled |-> handled, threw |-> threw,
     wasOpen |-> isMobileMenuOpen, wasCollapsed |-> sidebarCollapsed,
     item |-> NoItem]

Quiet(kind) == Event(kind, "none", "none", 0, FALSE, 0, FALSE)

FirstLoad ==
    [kind |-> "load", target |-> "none", key |-> "none", calls |-> 0,
     anchorNav |-> FALSE, handled |-> 0, threw |-> FALSE,
     wasOpen |-> FALSE, wasCollapsed |-> FALSE, item |-> NoItem]

-----------------------------------------------------------------------------
(* Navigation Item events *)

\* A click on the item outside its anchor or on the anchor (its icon and
\* label); a key pressed while the item has focus; Enter while the anchor has.
ItemEvents ==
    { [type |-> "click",   target |-> t, key |-> "none"] : t \in {"item", "anchor"} }
        \cup { [type |-> "keydown", target |-> "item", key |-> k] : k \in {"Enter", " ", "Tab"} }
        \cup { [type |-> "keydown", target |-> "anchor", key |-> "Enter"] }

\* <Link onClick={(e) => e.preventDefault()}>
\* Fault variant: the Link has no onClick.
LinkOnClickNoPrevent(e) == FALSE

LinkOnClickPreventsDefault(e) == e.type = "click" /\ e.target = "anchor"

\* handleKeyDown: if (e.key === 'Enter' || e.key === ' ') { e.preventDefault(); onClick(); }
handleKeyDownActivates(e) == e.type = "keydown" /\ e.key \in {"Enter", " "}

\* e.defaultPrevented once the event has bubbled through the item.
DefaultPrevented(e) == LinkOnClickPreventsDefault(e) \/ handleKeyDownActivates(e)

\* How often the onClick prop of SideMenuItem is invoked by one event:
\* onClick={onClick} on the div, onClick() in handleKeyDown.
OnClickCalls(e) ==
    (IF e.type = "click" THEN 1 ELSE 0) + (IF handleKeyDownActivates(e) THEN 1 ELSE 0)

\* The anchor's own navigation: a click on it, or Enter while it has focus,
\* follows the link unless the default was prevented.
AnchorNavigates(e) ==
    /\ e.target = "anchor"
    /\ e.type = "click" \/ e.key = "Enter"
    /\ ~DefaultPrevented(e)

\* handleItemClick: window.location.href = path
\* Fault variant: window.location.href = '/'.
handleItemClickHome(path) == << >>

handleItemClick(path) == path

-----------------------------------------------------------------------------
(* Actions *)

Init ==
    /\ mounted = TRUE
    /\ sidebarCollapsed = InitialSidebarCollapsed
    /\ isMobileMenuOpen = MountedOpen
    /\ pathname \in PathSet
    /\ listeners = ListenerSetup(<< >>, MountedOpen)
    /\ lazyStatus = StartLoad(AllIdle, pathname)
    /\ view = Render(sidebarCollapsed, pathname, lazyStatus)
    /\ routerNavs = 0
    /\ remounted = FALSE
    /\ lastEvent = FirstLoad

\* App mounts in the current document: both useState initial values, the
\* first render, then the two effects in order.
Mount ==
    /\ ~mounted
    /\ mounted' = TRUE
    /\ sidebarCollapsed' = InitialSidebarCollapsed
    /\ isMobileMenuOpen' = MountedOpen
    /\ listeners' = ListenerSetup(listeners, MountedOpen)
    /\ lazyStatus' = StartLoad(lazyStatus, pathname)
    /\ view' = Render(sidebarCollapsed', pathname, lazyStatus')
    /\ remounted' = TRUE
    /\ lastEvent' = Quiet("mount")
    /\ UNCHANGED <<pathname, routerNavs>>

\* App unmounts: the listener effect's cleanup runs; the instance's state is
\* dropped (the variables keep the values the instance had).
Unmount ==
    /\ mounted
    /\ mounted' = FALSE
    /\ listeners' = ListenerCleanup(listeners)
    /\ view' = NoView
    /\ lastEvent' = Quiet("unmount")
    /\ UNCHANGED <<sidebarCollapsed, isMobileMenuOpen, pathname, lazyStatus,
                   routerNavs, remounted>>

\* A click on the .sidebar-toggle button: toggleSidebar, re-render, and the
\* click then reaches the document listener with a target inside .side-menu.
ToggleSidebar ==
    /\ mounted
    /\ sidebarCollapsed' = toggleSidebarUpdate(sidebarCollapsed)
    /\ isMobileMenuOpen' = OpenAfterClick("toggle")
    /\ listeners' = ListenersAfter(isMobileMenuOpen')
    /\ view' = Render(sidebarCollapsed', pathname, lazyStatus)
    /\ lastEvent' = Event("click", "toggle", "none", 0, FALSE, Len(listeners),
                          AnyThrows(listeners, "toggle"))
    /\ UNCHANGED <<mounted, pathname, lazyStatus, routerNavs, remounted>>

\* toggleMobileMenu(): the state flips and the listener effect re-runs.
ToggleMobileMenu ==
    /\ mounted
    /\ isMobileMenuOpen' = toggleMobileMenuUpdate(isMobileMenuOpen)
    /\ listeners' = ListenersAfter(isMobileMenuOpen')
    /\ lastEvent' = Quiet("toggleMobileMenu")
    /\ UNCHANGED <<mounted, sidebarCollapsed, pathname, lazyStatus, view,
                   routerNavs, remounted>>

\* The browser loads the document at path: the old document goes, with it
\* every listener, every loaded module and the state of its App instance, and
\* App mounts in the new one.
PageLoadTo(path) ==
    /\ pathname' = path
    /\ mounted' = TRUE
    /\ sidebarCollapsed' = InitialSidebarCollapsed
    /\ isMobileMenuOpen' = MountedOpen
    /\ listeners' = ListenerSetup(<< >>, MountedOpen)
    /\ lazyStatus' = StartLoad(AllIdle, path)
    /\ view' = Render(sidebarCollapsed', path, lazyStatus')
    /\ routerNavs' = 0
    /\ remounted' = FALSE

\* An item event that invokes no onClick: the dispatch, the anchor's own
\* navigation if it was not prevented, and the document listener for a click.
StayOnPage(i, e) ==
    /\ pathname' = IF AnchorNavigates(e) THEN navigationItems[i].path ELSE pathname
    /\ lazyStatus' = StartLoad(lazyStatus, pathname')
    /\ isMobileMenuOpen' = IF e.type = "click" THEN OpenAfterClick(e.target)
                           ELSE isMobileMenuOpen
    /\ listeners' = ListenersAfter(isMobileMenuOpen')
    /\ view' = Render(sidebarCollapsed, pathname', lazyStatus')
    /\ UNCHANGED <<mounted, sidebarCollapsed, routerNavs, remounted>>

\* A click or keydown on Navigation Item i.  onClick is
\* () => handleItemClick(item.path), which assigns window.location.href.
ItemEvent(i, e) ==
    /\ mounted
    /\ IF OnClickCalls(e) > 0
       THEN PageLoadTo(handleItemClick(navigationItems[i].path))
       ELSE StayOnPage(i, e)
    /\ lastEvent' = [Event(e.type, e.target, e.key, OnClickCalls(e), AnchorNavigates(e),
                           IF e.type = "click" THEN Len(listeners) ELSE 0,
                           e.type = "click" /\ AnyThrows(listeners, e.target))
                        EXCEPT !.item = IF OnClickCalls(e) > 0 THEN i ELSE NoItem]

\* A click whose target is not inside the Navigation Panel.
DocumentClick(target) ==
    /\ isMobileMenuOpen' = OpenAfterClick(target)
    /\ listeners' = ListenersAfter(isMobileMenuOpen')
    /\ lastEvent' = Event("click", target, "none", 0, FALSE, Len(listeners),
                          AnyThrows(listeners, target))
    /\ UNCHANGED <<mounted, sidebarCollapsed, pathname, lazyStatus, view,
                   routerNavs, remounted>>

\* The router reports a new location of the same document (history traversal
\* or a pushState by a view); SideMenuContent and Routes re-render.
LocationChange(p) ==
    /\ mounted
    /\ p # pathname
    /\ routerNavs < MaxRouterNavs
    /\ routerNavs' = routerNavs + 1
    /\ pathname' = p
    /\ lazyStatus' = StartLoad(lazyStatus, p)
    /\ view' = Render(sidebarCollapsed, p, lazyStatus')
    /\ lastEvent' = Quiet("locationChange")
    /\ UNCHANGED <<mounted, sidebarCollapsed, isMobileMenuOpen, listeners, remounted>>

\* The import() of a lazy component resolves; Suspense retries the render.
LoadComplete(i) ==
    /\ lazyStatus[i] = "loading"
    /\ lazyStatus' = [lazyStatus EXCEPT ![i] = "ready"]
    /\ view' = IF mounted THEN Render(sidebarCollapsed, pathname, lazyStatus') ELSE view
    /\ lastEvent' = Quiet("loadComplete")
    /\ UNCHANGED <<mounted, sidebarCollapsed, isMobileMenuOpen, pathname, listeners,
                   routerNavs, remounted>>

-----------------------------------------------------------------------------
(* The runner script.  sh.todo is what the invocation still has to run, in  *)
(* order; sh.exit is its exit status, Running until it has exited.          *)

Running == -1

Modes == {"", "--help", "-h", "--build-only", "--run-only", "--stop", "--logs",
          "--engine", "--other"}

\* case "${1:-}" in ... esac: the functions each mode calls, in order.
main == <<"check_container_runtime", "create_directories", "fix_permissions",
          "build_image", "run_container", "show_status", "end">>

Dispatch(mode) ==
    CASE mode \in {"--help", "-h"} -> <<"help">>
      [] mode = "--build-only" -> <<"check_container_runtime", "build_image", "exit0">>
      [] mode = "--run-only"   -> <<"check_container_runtime", "run_container",
                                    "show_status", "exit0">>
      [] mode = "--stop"       -> <<"detect_container_runtime", "stop", "exit0">>
      [] mode = "--logs"       -> <<"detect_container_runtime", "logs", "exit0">>
      [] mode = "--engine"     -> <<"detect_container_runtime", "echo_engine", "exit0">>
      [] OTHER                 -> main

\* command -v docker &> /dev/null && docker info &> /dev/null
Available(installed, responds) == installed /\ responds

\* detect_container_runtime: the if / elif / else chain.  "" is no engine.
\* Fault variant: the two branches swapped.
detect_podman_first(s) ==
    IF Available(s.podmanInstalled, s.podmanResponds) THEN "podman"
    ELSE IF Available(s.dockerInstalled, s.dockerResponds) THEN "docker"
    ELSE ""

detect_container_runtime(s) ==
    IF Available(s.dockerInstalled, s.dockerResponds) THEN "docker"
    ELSE IF Available(s.podmanInstalled, s.podmanResponds) THEN "podman"
    ELSE ""

\* The exit status of detect_container_runtime's else branch: exit 1.
DetectFailureExit == 1

\* $CONTAINER_ENGINE ps --format "table {{.Names}}" | grep -q "oc-mirror-web-app":
\* ps lists running containers only, and grep matches any name that contains
\* the string.
AlreadyRunning(s) == s.container = "running" \/ s.lookalike

\* The engine refuses run --name oc-mirror-web-app while a container of that
\* name exists, running or stopped.
NameConflict(container) == container # "none"

NoCmds == << >>

ShFields(mode, di, dr, pi, pr, container, lookalike) ==
    [ mode |-> mode, todo |-> Dispatch(mode), steps |-> << >>, engine |-> "",
      cmds |-> NoCmds, exit |-> Running, probed |-> FALSE,
      dockerInstalled |-> di, dockerResponds |-> dr,
      podmanInstalled |-> pi, podmanResponds |-> pr,
      container |-> container, lookalike |-> lookalike,
      built |-> FALSE, started |-> FALSE, runResult |-> "", statusPrinted |-> FALSE ]

\* No invocation: the value sh has while the application is what runs.
ShIdle == [ShFields("--help", FALSE, FALSE, FALSE, FALSE, "none", FALSE)
              EXCEPT !.todo = << >>, !.exit = 0]

At(step) == sh.exit = Running /\ sh.todo # << >> /\ Head(sh.todo) = step

\* The step at the head of todo has run to its end.
Advance(s) == [s EXCEPT !.todo = Tail(@), !.steps = Append(@, Head(s.todo))]

\* exit, or set -e ending the script on a failed command.
Abort(s, code) ==
    [s EXCEPT !.todo = << >>, !.steps = Append(@, Head(s.todo)), !.exit = code]

Issue(s, cmd) == [s EXCEPT !.cmds = Append(@, [engine |-> s.engine, cmd |-> cmd])]

ShInit ==
    \E mode \in Modes, di, dr, pi, pr, lookalike \in BOOLEAN,
       container \in {"none", "running", "stopped"} :
        sh = ShFields(mode, di, dr, pi, pr, container, lookalike)

\* --help | -h: the usage text, exit 0.
ShHelp ==
    /\ At("help")
    /\ sh' = Abort(sh, 0)
    /\ UNCHANGED vars

\* detect_container_runtime, called directly or first thing in
\* check_container_runtime.
\* Fault variant: the else branch without exit 1.
DetectedNoExit(s) ==
    [s EXCEPT !.engine = detect_container_runtime(s), !.probed = TRUE]

Detected(s) ==
    LET e == detect_container_runtime(s)
        t == [s EXCEPT !.engine = e, !.probed = TRUE]
    IN  IF e = "" THEN Abort(t, DetectFailureExit) ELSE t

ShDetect ==
    /\ At("detect_container_runtime")
    /\ sh' = (IF Detected(sh).exit = Running THEN Advance(Detected(sh)) ELSE Detected(sh))
    /\ UNCHANGED vars

\* check_container_runtime: detect, then $CONTAINER_ENGINE info once more,
\* which the daemon may by then fail to answer.
ShCheck(stillResponds) ==
    /\ At("check_container_runtime")
    /\ sh' = (IF Detected(sh).exit # Running THEN Detected(sh)
              ELSE IF stillResponds THEN Advance(Detected(sh))
              ELSE Abort(Detected(sh), 1))
    /\ UNCHANGED vars

\* create_directories: four mkdir -p and chmod -R 755 under set -e; a failing
\* chown falls back to chmod -R 777.
ShCreateDirectories(ok, code) ==
    /\ At("create_directories")
    /\ sh' = (IF ok THEN Advance(sh) ELSE Abort(sh, code))
    /\ UNCHANGED vars

\* fix_permissions: chown then chmod 755, else chmod 777; a failing chmod
\* ends the script.
ShFixPermissions(ok, code) ==
    /\ At("fix_permissions")
    /\ sh' = (IF ok THEN Advance(sh) ELSE Abort(sh, code))
    /\ UNCHANGED vars

\* build_image: $CONTAINER_ENGINE build -t oc-mirror-web-app . ; exit 1 on failure.
\* Fault variant: the failure branch without exit 1.
build_image_no_exit(s, ok) ==
    Advance([Issue(s, "build") EXCEPT !.built = ok])

build_image(s, ok) ==
    IF s.engine \notin {"podman", "docker"} THEN Abort(s, 1)
    ELSE IF ok THEN Advance([Issue(s, "build") EXCEPT !.built = TRUE])
    ELSE Abort(Issue(s, "build"), 1)

ShBuild(ok) ==
    /\ At("build_image")
    /\ sh' = build_image(sh, ok)
    /\ UNCHANGED vars

\* run_container: if ps | grep finds the name, stop and rm it (either failing
\* ends the script: set -e); then run -d --name oc-mirror-web-app.
StopAndRemove(s) ==
    LET t == Issue(s, "stop")
    IN  IF s.container = "none" THEN [Abort(t, 1) EXCEPT !.runResult = "no such container"]
        ELSE [Issue(t, "rm") EXCEPT !.container = "none"]

run_container(s, ok, code) ==
    LET a == IF AlreadyRunning(s) THEN StopAndRemove(Issue(s, "ps")) ELSE Issue(s, "ps")
        r == Issue(a, "run")
    IN  IF a.exit # Running THEN a
        ELSE IF NameConflict(a.container)
             THEN [Abort(r, 125) EXCEPT !.runResult = "name in use"]
        ELSE IF ok
             THEN Advance([r EXCEPT !.container = "running", !.started = TRUE,
                                    !.runResult = "started"])
        ELSE [Abort(r, code) EXCEPT !.runResult = "failed"]

ShRun(ok, code) ==
    /\ At("run_container")
    /\ sh' = run_container(sh, ok, code)
    /\ UNCHANGED vars

\* show_status: the banner, then $CONTAINER_ENGINE ps --filter, then the hints.
ShStatus(ok, code) ==
    /\ At("show_status")
    /\ sh' = (LET t == [Issue(sh, "ps") EXCEPT !.statusPrinted = TRUE]
              IN  IF ok THEN Advance(t) ELSE Abort(t, code))
    /\ UNCHANGED vars

\* --stop: stop || true; rm || true.
ShStop ==
    /\ At("stop")
    /\ sh' = Advance([Issue(Issue(sh, "stop"), "rm") EXCEPT !.container = "none"])
    /\ UNCHANGED vars

\* --logs: $CONTAINER_ENGINE logs -f oc-mirror-web-app
ShLogs(ok, code) ==
    /\ At("logs")
    /\ sh' = (IF ok THEN Advance(Issue(sh, "logs")) ELSE Abort(Issue(sh, "logs"), code))
    /\ UNCHANGED vars

\* --engine: echo "Detected container engine: $CONTAINER_ENGINE"
ShEchoEngine ==
    /\ At("echo_engine")
    /\ sh' = Advance(sh)
    /\ UNCHANGED vars

\* exit 0 at the end of a mode's branch.
ShExit0 ==
    /\ At("exit0")
    /\ sh' = Abort(sh, 0)
    /\ UNCHANGED vars

\* The default branch ends with main: the script's status is that of
\* show_status's last echo.
ShEnd ==
    /\ At("end")
    /\ sh' = Abort(sh, 0)
    /\ UNCHANGED vars

FailCodes == {1, 125}

ShNext ==
    \/ ShHelp
    \/ ShDetect
    \/ \E r \in BOOLEAN : ShCheck(r)
    \/ \E ok \in BOOLEAN, c \in FailCodes : ShCreateDirectories(ok, c)
    \/ \E ok \in BOOLEAN, c \in FailCodes : ShFixPermissions(ok, c)
    \/ \E ok \in BOOLEAN : ShBuild(ok)
    \/ \E ok \in BOOLEAN, c \in FailCodes : ShRun(ok, c)
    \/ \E ok \in BOOLEAN, c \in FailCodes : ShStatus(ok, c)
    \/ ShStop
    \/ \E ok \in BOOLEAN, c \in FailCodes : ShLogs(ok, c)
    \/ ShEchoEngine
    \/ ShExit0
    \/ ShEnd

allVars == <<vars, sh>>

\* The application frozen at a first load, while the script runs.
ScriptInit ==
    /\ Init
    /\ pathname = << >>
    /\ ShInit

ScriptSpec == ScriptInit /\ [][ShNext]_allVars

Next ==
    \/ Mount /\ UNCHANGED sh
    \/ Unmount /\ UNCHANGED sh
    \/ ToggleSidebar /\ UNCHANGED sh
    \/ ToggleMobileMenu /\ UNCHANGED sh
    \/ \E i \in Items, e \in ItemEvents : ItemEvent(i, e) /\ UNCHANGED sh
    \/ \E t \in Targets : DocumentClick(t) /\ UNCHANGED sh
    \/ \E p \in PathSet : LocationChange(p) /\ UNCHANGED sh
    \/ \E i \in Items : LoadComplete(i) /\ UNCHANGED sh

\* The application as it is wired: toggleMobileMenu is passed to no component
\* and bound to no control, so no event calls it.
NextApp ==
    \/ Mount /\ UNCHANGED sh
    \/ Unmount /\ UNCHANGED sh
    \/ ToggleSidebar /\ UNCHANGED sh
    \/ \E i \in Items, e \in ItemEvents : ItemEvent(i, e) /\ UNCHANGED sh
    \/ \E t \in Targets : DocumentClick(t) /\ UNCHANGED sh
    \/ \E p \in PathSet : LocationChange(p) /\ UNCHANGED sh
    \/ \E i \in Items : LoadComplete(i) /\ UNCHANGED sh

\* The application runs; no script invocation is in progress.
AppInit ==
    /\ Init
    /\ sh = ShIdle

Spec == AppInit /\ [][Next]_allVars

SpecApp == AppInit /\ [][NextApp]_allVars

-----------------------------------------------------------------------------
(* Properties *)

\* The step just taken loaded a document (the first load, or the load that an
\* assignment to window.location.href started).
PageLoaded == lastEvent.kind = "load" \/ lastEvent.calls > 0

Activation(ev) ==
    /\ ev.target \in {"item", "anchor"}
    /\ ev.kind = "click" \/ ev.key \in {"Enter", " "}

\* C1: at every location at most one navigation item is rendered active, and
\* item i is rendered active exactly when the location's path equals its path;
\* a path that only starts with an item's path activates nothing.
C1_ActiveIsExactMatch ==
    mounted =>
        /\ Cardinality(view.active) <= 1
        /\ \A i \in Items : (i \in view.active) <=> (navigationItems[i].path = pathname)

C1_Witness ==
    /\ mounted
    /\ pathname = <<"config", "x">>
    /\ view.active = {}
    /\ lastEvent.kind = "locationChange"

\* C2: a click on an element outside the Navigation Panel, dispatched while
\* the mobile menu is open, leaves the menu closed.
C2_OutsideClickCloses ==
    ( /\ mounted
      /\ lastEvent.kind = "click"
      /\ lastEvent.target \in {"outside", "detached"}
      /\ lastEvent.wasOpen )
        => ~isMobileMenuOpen

C2_Witness ==
    /\ mounted
    /\ lastEvent.kind = "click"
    /\ lastEvent.target = "outside"
    /\ lastEvent.wasOpen
    /\ ~isMobileMenuOpen

\* C3: toggleMobileMenu flips the menu state, and an open menu of a mounted
\* shell closes only by a closing trigger: the toggle, a click outside the
\* panel, or the start of a freshly loaded shell.
C3_ToggleFlipsAndOpenPersists ==
    [][ /\ lastEvent'.kind = "toggleMobileMenu"
            => isMobileMenuOpen' = ~isMobileMenuOpen
        /\ (mounted /\ mounted' /\ isMobileMenuOpen /\ ~isMobileMenuOpen')
            => \/ lastEvent'.kind = "toggleMobileMenu"
               \/ lastEvent'.kind = "click" /\ lastEvent'.target \in {"outside", "detached"}
               \/ lastEvent'.calls > 0
      ]_vars

C3_Witness ==
    /\ lastEvent.kind = "toggleMobileMenu"
    /\ ~lastEvent.wasOpen
    /\ isMobileMenuOpen

\* C4: after every mount of the shell (the first, a remount, or the mount in
\* a newly loaded document) the mobile menu is closed and the sidebar expanded.
C4_MountResetsState ==
    (lastEvent.kind = "mount" \/ PageLoaded)
        => mounted /\ ~isMobileMenuOpen /\ ~sidebarCollapsed

C4_Witness ==
    /\ lastEvent.kind = "mount"
    /\ lastEvent.wasOpen
    /\ lastEvent.wasCollapsed
    /\ ~isMobileMenuOpen
    /\ ~sidebarCollapsed

\* C5: exactly one document click listener is registered while the shell is
\* mounted and none while it is not, and every click is handled by as many
\* listeners: one while mounted, none after unmount.
C5_OneListener ==
    /\ Len(listeners) = (IF mounted THEN 1 ELSE 0)
    /\ (lastEvent.kind = "click" /\ lastEvent.target \in Targets)
        => lastEvent.handled = (IF mounted THEN 1 ELSE 0)

C5_Witness ==
    /\ remounted
    /\ mounted
    /\ lastEvent.kind = "click"
    /\ lastEvent.target = "outside"
    /\ lastEvent.wasOpen
    /\ lastEvent.handled = 1

\* C6: a click on a navigation item or on its anchor, and a keydown of Enter
\* or Space on it, each invoke the item's onClick exactly once, and the anchor
\* never navigates by itself.
C6_ActivationOnce ==
    Activation(lastEvent) => lastEvent.calls = 1 /\ ~lastEvent.anchorNav

C6_Witness ==
    /\ lastEvent.kind = "click"
    /\ lastEvent.target = "anchor"
    /\ lastEvent.calls = 1
    /\ ~lastEvent.anchorNav

\* C7: a click on the sidebar toggle flips sidebarCollapsed; afterwards no
\* label is rendered iff collapsed, aria-expanded is the negation of collapsed,
\* and the location, the active item and isMobileMenuOpen are as before.
C7_ToggleSidebarFrame ==
    [][ lastEvent'.target = "toggle" =>
            /\ sidebarCollapsed' = ~sidebarCollapsed
            /\ view'.labels = (IF sidebarCollapsed' THEN {} ELSE Items)
            /\ view'.ariaExpanded = ~sidebarCollapsed'
            /\ view'.navCollapsed = sidebarCollapsed'
            /\ view'.active = view.active
            /\ pathname' = pathname
            /\ isMobileMenuOpen' = isMobileMenuOpen
      ]_vars

C7_Witness ==
    /\ lastEvent.target = "toggle"
    /\ ~lastEvent.wasCollapsed
    /\ sidebarCollapsed
    /\ view.labels = {}
    /\ ~view.ariaExpanded

\* C8: sidebarCollapsed changes only in a click on the sidebar toggle (the
\* mount of a new instance after an unmount starts a new state and is not
\* counted); an event on a navigation item, a location change, a click
\* outside the panel and the completion of a lazy load leave it unchanged.
C8_CollapsedOnlyByToggle ==
    [][ /\ sidebarCollapsed' # sidebarCollapsed
            => lastEvent'.target = "toggle" \/ lastEvent'.kind = "mount"
        /\ ( \/ lastEvent'.target \in {"item", "anchor"}
             \/ lastEvent'.target \in Targets
             \/ lastEvent'.kind \in {"locationChange", "loadComplete"} )
            => sidebarCollapsed' = sidebarCollapsed
      ]_vars

\* C9: isMobileMenuOpen changes only by toggleMobileMenu, by a click outside
\* the panel and by the normalization of a mount; a click inside the panel
\* (on an item or on the sidebar toggle) and the completion of a lazy load
\* leave it unchanged.
C9_MobileMenuOnlyByShell ==
    [][ /\ isMobileMenuOpen' # isMobileMenuOpen
            => \/ lastEvent'.kind \in {"toggleMobileMenu", "mount"}
               \/ lastEvent'.kind = "click" /\ lastEvent'.target \in {"outside", "detached"}
        /\ ( \/ lastEvent'.kind = "click" /\ lastEvent'.target \in {"item", "anchor", "toggle"}
             \/ lastEvent'.kind = "loadComplete" )
            => isMobileMenuOpen' = isMobileMenuOpen
      ]_vars

\* C10: a click whose target cannot be resolved to an element inside or
\* outside the panel (a detached node, a target without closest) makes no
\* listener throw and closes an open menu.
C10_UnresolvableTargetCloses ==
    ( /\ mounted
      /\ lastEvent.kind = "click"
      /\ lastEvent.target \in {"detached", "nonElement"}
      /\ lastEvent.wasOpen )
        => ~lastEvent.threw /\ ~isMobileMenuOpen

\* C11: --help and -h exit 0 without probing an engine; every other mode,
\* when neither docker nor podman is installed and responding, exits 1 at its
\* first step and issues no build, run, stop, rm or logs command.
NoEngine ==
    /\ ~(sh.dockerInstalled /\ sh.dockerResponds)
    /\ ~(sh.podmanInstalled /\ sh.podmanResponds)

C11_HelpAndNoEngineExit ==
    /\ (sh.mode \in {"--help", "-h"} /\ sh.steps # << >>)
        => sh.exit = 0 /\ ~sh.probed /\ sh.cmds = << >>
    /\ (sh.mode \notin {"--help", "-h"} /\ NoEngine)
        => /\ \A k \in DOMAIN sh.cmds :
                sh.cmds[k].cmd \notin {"build", "run", "stop", "rm", "logs"}
           /\ sh.steps # << >> => sh.exit = 1

C11_Witness ==
    /\ sh.mode = "--stop"
    /\ NoEngine
    /\ sh.dockerInstalled
    /\ sh.steps = <<"detect_container_runtime">>
    /\ sh.exit = 1

\* C16: without an argument the steps run in the order of main and a failed
\* step ends the run with a non-zero status: exit 0 only after all of them;
\* run is issued only after this invocation's build succeeded, and the status
\* is printed only after this invocation started the container.
C16_MainOrder ==
    sh.mode \in {"", "--other"} =>
        /\ IsPrefixOf(sh.steps, main)
        /\ sh.exit = 0 => sh.steps = main
        /\ (\E k \in DOMAIN sh.cmds : sh.cmds[k].cmd = "run") => sh.built
        /\ sh.started => sh.built
        /\ sh.statusPrinted => sh.started

C16_Witness ==
    /\ sh.mode = ""
    /\ sh.exit = 0
    /\ sh.steps = main
    /\ sh.built
    /\ sh.started
    /\ sh.statusPrinted

\* C17: run_container does not fail because of the state it finds the
\* container named oc-mirror-web-app in: one that exists, running or stopped,
\* is stopped and removed before run, so run never meets a name in use, and
\* after a started run the container is running.
C17_RunFromAnyState ==
    /\ sh.runResult # "name in use"
    /\ sh.runResult = "started" => sh.container = "running"

\* C18: CONTAINER_ENGINE is docker whenever docker is installed and responds,
\* podman only when docker is not and podman is, and every engine command of
\* the invocation is issued to that engine.
C18_EnginePreference ==
    /\ (sh.probed /\ sh.dockerInstalled /\ sh.dockerResponds) => sh.engine = "docker"
    /\ sh.engine = "podman"
        => /\ ~(sh.dockerInstalled /\ sh.dockerResponds)
           /\ sh.podmanInstalled /\ sh.podmanResponds
    /\ \A k \in DOMAIN sh.cmds :
        sh.cmds[k].engine = sh.engine /\ sh.engine \in {"docker", "podman"}

C18_Witness ==
    /\ sh.dockerInstalled /\ sh.dockerResponds
    /\ sh.podmanInstalled /\ sh.podmanResponds
    /\ sh.engine = "docker"
    /\ Len(sh.cmds) >= 3

\* What the content region shows for the current location, given the state
\* of the matched route's module.
Suspended == mounted /\ RouteMatch(pathname) # NoItem
                /\ lazyStatus[RouteMatch(pathname)] # "ready"

\* C12: while the module of the current route is loading the content region
\* shows the placeholder and the sidebar toggle and item activation remain
\* possible; once it has loaded the route's view is rendered; and a module
\* that has loaded stays loaded, so no later visit loads it again.
C12_LazyLoadedOnce ==
    [][ /\ Suspended
            => /\ view.content = "LoadingSpinner"
               /\ ENABLED ToggleSidebar
               /\ \A i \in Items : ENABLED ItemEvent(i, [type |-> "click", target |-> "item",
                                                        key |-> "none"])
        /\ (mounted /\ RouteMatch(pathname) # NoItem /\ ~Suspended)
            => view.content = navigationItems[RouteMatch(pathname)].component
        /\ \A i \in Items : lazyStatus[i] = "ready" => lazyStatus'[i] = "ready"
      ]_vars

\* C13: a requested load is never abandoned: a module that is loading keeps
\* loading until it is ready, whatever the user activates meanwhile.
C13_LoadNeverAbandoned ==
    [][ \A i \in Items :
            lazyStatus[i] = "loading" => lazyStatus'[i] \in {"loading", "ready"}
      ]_vars

C15_RouteChangeCloses ==
    [][ (mounted /\ isMobileMenuOpen /\ pathname' # pathname) => ~isMobileMenuOpen'
      ]_vars

\* C19: with no event bound to toggleMobileMenu the mobile menu is closed in
\* every reachable state, every registered listener closed over false, and
\* no click changes the state through the listener.
C19_MenuNeverOpens ==
    /\ ~isMobileMenuOpen
    /\ ~lastEvent.wasOpen
    /\ \A k \in DOMAIN listeners : ~listeners[k]

C19_Witness ==
    /\ mounted
    /\ remounted
    /\ lastEvent.kind = "click"
    /\ lastEvent.target = "outside"
    /\ lastEvent.handled = 1
    /\ ~isMobileMenuOpen

====
